---- MODULE Spec2Model ----
(***************************************************************************)
(* pg_view: the tick-driven display loop (view.py), the capacity-1 channel *)
(* between the disk sampler and the loop, and the system (CPU) collector   *)
(* (collectors/system_collector.py).                                       *)
(***************************************************************************)
EXTENDS Integers, Sequences, FiniteSets, TLC

\* ------------------------------------------------------------------------
\* Bounds of the model
\* ------------------------------------------------------------------------

\* largest raw counter value a /proc/stat token takes in the model
MaxTicks == 2

\* ------------------------------------------------------------------------
\* Values
\* ------------------------------------------------------------------------

\* Python's None, for a raw or coerced counter value (counters are >= 0)
None == -1

\* a token of the cpu row that float() rejects (non-numeric text)
BadToken == -2

\* a derived value: None, or the exact rational num / den
NoneValue == [isNone |-> TRUE, num |-> 0, den |-> 1]

Value(n, d) == [isNone |-> FALSE, num |-> n, den |-> d]

\* Python truthiness of a coerced counter: None and 0.0 are both false
Truthy(v) == v # None /\ v # 0

\* ------------------------------------------------------------------------
\* SystemStatCollector: the field tables
\* ------------------------------------------------------------------------

\* transform_list_data: out name -> index into the cpu row (0-based, as in
\* the source; index 1, "nice", is read by no field)
CpuModes == {"utime", "stime", "idle", "iowait", "irq", "softirq", "steal", "guest"}

OptionalModes == {"softirq", "steal", "guest"}

ListIndex(mode) ==
    CASE mode = "utime" -> 0
      [] mode = "stime" -> 2
      [] mode = "idle" -> 3
      [] mode = "iowait" -> 4
      [] mode = "irq" -> 5
      [] mode = "softirq" -> 6
      [] mode = "steal" -> 7
      [] mode = "guest" -> 8

\* transform_dict_data: out name -> key of the /proc/stat map
DictFields == {"ctxt", "running", "blocked"}

DictKey(f) ==
    CASE f = "ctxt" -> "ctxt"
      [] f = "running" -> "procs_running"
      [] f = "blocked" -> "procs_blocked"

\* diff_generator_data: the eight modes use _cpu_time_diff, ctxt the default
\* diff, running and blocked are declared diff=False
DiffFields == CpuModes \cup DictFields

PassThroughFields == {"running", "blocked"}

Fields == CpuModes \cup DictFields

\* a collector's snapshot before any refresh: no field has a value
EmptyRow == [f \in Fields |-> None]

\* ------------------------------------------------------------------------
\* State
\* ------------------------------------------------------------------------

VARIABLES
    env,                      \* what the environment of this run can deliver
    clusters,                 \* number of monitored instances found at start-up
    output_method,            \* "curses", "console" or "json"
    pc,                       \* position of the main process
    raised,                   \* exception unwinding main(), or "none"
    reported,                 \* errors reported to the user so far
    exit_status,              \* status the process exited with, None before
    screen,                   \* curses screen handed to do_loop, or "None"
    collectors,               \* the list built by main(), in order
    idx,                      \* index of the for loops of do_loop
    consts,                   \* the ViewState flags of consts.py
    show_help,                \* help visibility of the output object
    q,                        \* the JoinableQueue between sampler and loop
    producer,                 \* the disk sampler process
    consumer_result,          \* batch drained in this tick, 0 when none
    snap,                     \* current snapshot of every other collector
    rows_prev,                \* system collector: previous snapshot
    rows_cur,                 \* system collector: current snapshot
    previos_total_cpu_time,   \* system collector (name as in the source)
    current_total_cpu_time,
    cpu_time_diff,
    sys_error,                \* exception the last refresh() raised, or "none"
    last_error,               \* collector failure logged by the last process step
    tick_frozen,              \* freeze was set at every step of this tick so far
    displayed,                \* collectors displayed in this tick
    last_output,              \* what was last displayed for the watched collector
    slept,                    \* whether the last tick ended with a sleep
    cell                      \* the value a unit conversion was last applied to, and its result

sysVars == <<rows_prev, rows_cur, previos_total_cpu_time,
             current_total_cpu_time, cpu_time_diff, sys_error>>

startVars == <<env, clusters, output_method>>

mainVars == <<pc, raised, reported, exit_status, screen, collectors, idx>>

viewVars == <<consts, show_help>>

channelVars == <<q, producer, consumer_result>>

histVars == <<last_error, tick_frozen, displayed, last_output, slept>>

vars == <<startVars, mainVars, viewVars, channelVars, snap, sysVars, histVars,
          cell>>

\* ------------------------------------------------------------------------
\* SystemStatCollector: parsing
\* ------------------------------------------------------------------------

\* _transform_input over transform_list_data: look the token up by index,
\* coerce with float; an index past the end of the row is None for an
\* optional field and a MissingFieldError for a required one; a token float()
\* rejects is a CoercionError
ListLookup(cpu_row, mode) ==
    IF ListIndex(mode) + 1 <= Len(cpu_row) THEN cpu_row[ListIndex(mode) + 1] ELSE None

_read_cpu_data(cpu_row) ==
    IF \E m \in CpuModes \ OptionalModes : ListLookup(cpu_row, m) = None
    THEN [error |-> "MissingFieldError", data |-> [m \in CpuModes |-> None]]
    ELSE IF \E m \in CpuModes : ListLookup(cpu_row, m) = BadToken
    THEN [error |-> "CoercionError", data |-> [m \in CpuModes |-> None]]
    ELSE [error |-> "none", data |-> [m \in CpuModes |-> ListLookup(cpu_row, m)]]

\* the sum of a function over the eight modes
SumModes(f) ==
    f["utime"] + f["stime"] + f["idle"] + f["iowait"] + f["irq"] + f["softirq"]
      + f["steal"] + f["guest"]

\* a total that leaves the optional modes out
TotalCpuTimeRequiredOnly(cpu_data) ==
    SumModes([m \in CpuModes |->
                IF cpu_data[m] = None \/ m \in OptionalModes THEN 0 ELSE cpu_data[m]])

\* a total that adds up every value of the map, the absent ones as read
TotalCpuTimeCountsAbsent(cpu_data) == SumModes(cpu_data)

\* sum(v for v in cpu_data.values() if v is not None)
TotalCpuTime(cpu_data) ==
    SumModes([m \in CpuModes |-> IF cpu_data[m] = None THEN 0 ELSE cpu_data[m]])

\* ------------------------------------------------------------------------
\* SystemStatCollector: the diff functions
\* ------------------------------------------------------------------------

\* a variant of _cpu_time_diff that reads a missing previous value as 0
CpuTimeDiffNoPrevious(colname, current, previous) ==
    IF Truthy(current[colname]) /\ cpu_time_diff > 0
    THEN Value(current[colname]
                 - (IF previous[colname] = None THEN 0 ELSE previous[colname]),
               cpu_time_diff)
    ELSE NoneValue

\* a variant of _cpu_time_diff that takes the share of the current value
CpuTimeDiffOfCurrent(colname, current, previous) ==
    IF Truthy(current[colname]) /\ Truthy(previous[colname]) /\ cpu_time_diff > 0
    THEN Value(current[colname], cpu_time_diff)
    ELSE NoneValue

_cpu_time_diff(colname, current, previous) ==
    IF Truthy(current[colname]) /\ Truthy(previous[colname]) /\ cpu_time_diff > 0
    THEN Value(current[colname] - previous[colname], cpu_time_diff)
    ELSE NoneValue

\* the default numeric diff (ctxt): current - previous when both are present
\* and the counter did not decrease, None otherwise
DefaultDiff(colname, current, previous) ==
    IF current[colname] # None /\ previous[colname] # None
       /\ current[colname] >= previous[colname]
    THEN Value(current[colname] - previous[colname], 1)
    ELSE NoneValue

\* a field declared diff=False is copied through
PassThrough(colname, current) ==
    IF current[colname] = None THEN NoneValue ELSE Value(current[colname], 1)

\* computeDeltas over diff_generator_data
Diff(colname, current, previous) ==
    IF colname \in PassThroughFields THEN PassThrough(colname, current)
    ELSE IF colname \in CpuModes THEN _cpu_time_diff(colname, current, previous)
    ELSE DefaultDiff(colname, current, previous)

\* the collector's derived row for its two snapshots
rows_diff == [f \in DiffFields |-> Diff(f, rows_cur, rows_prev)]

\* ticks per second of the kernel's clock (the value the tests run with)
USER_HZ == 100

\* a kilobyte conversion that divides as integers do
KbToMbytesFloor(kb) == IF kb = None THEN NoneValue ELSE Value(kb \div 1024, 1)

\* UnitConverter: each conversion divides the float of its input, None for
\* None
kb_to_mbytes(kb) == IF kb = None THEN NoneValue ELSE Value(kb, 1024)

sectors_to_mbytes(sectors) ==
    IF sectors = None THEN NoneValue ELSE Value(sectors, 2048)

bytes_to_mbytes(bytes_val) ==
    IF bytes_val = None THEN NoneValue ELSE Value(bytes_val, 1048576)

ticks_to_seconds(tick_value) ==
    IF tick_value = None THEN NoneValue ELSE Value(tick_value, USER_HZ)

\* UnitConverter.time_diff_to_percent: 100 * x, None for None
time_diff_to_percent(v) == IF v.isNone THEN NoneValue ELSE Value(100 * v.num, v.den)

\* ------------------------------------------------------------------------
\* SystemStatCollector: the output stage
\* ------------------------------------------------------------------------

\* output_transform_data: the cells of a row, by their 'out' name
OutputFields == {"utime", "stime", "idle", "iowait", "irq", "soft", "steal",
                 "guest", "ctxt", "run", "block"}

\* the 'in' of a cell: the field it shows, its own name unless declared
OutputIn(f) ==
    CASE f = "soft" -> "softirq"
      [] f = "run" -> "running"
      [] f = "block" -> "blocked"
      [] OTHER -> f

\* the threshold keys a cell declares, spelled as in the source
ThresholdKeys(f) ==
    CASE f = "utime" -> [warning |-> 50, critial |-> 90]
      [] f = "stime" -> [warning |-> 10, critical |-> 30]
      [] f = "iowait" -> [warning |-> 20, critical |-> 50]
      [] f = "block" -> [warning |-> 1, critial |-> 5]
      [] OTHER -> [k \in {} |-> 0]

\* the threshold the output stage finds under a key, None when the cell
\* declares no such key
Threshold(f, key) ==
    IF key \in DOMAIN ThresholdKeys(f) THEN ThresholdKeys(f)[key] ELSE None

\* round(x, RD) with RD = 1: the nearest tenth, halves to the even tenth
Tenths(v) ==
    IF (2 * ((10 * v.num) % v.den) > v.den)
       \/ (2 * ((10 * v.num) % v.den) = v.den /\ ((10 * v.num) \div v.den) % 2 = 1)
    THEN ((10 * v.num) \div v.den) + 1
    ELSE (10 * v.num) \div v.den

\* the value a cell displays, in tenths: the modes as rounded percentages of
\* their share, ctxt as int() of its delta, run and block as read
Displayed(f) ==
    IF OutputIn(f) \in CpuModes
    THEN IF rows_diff[OutputIn(f)].isNone THEN NoneValue
         ELSE Value(Tenths(time_diff_to_percent(rows_diff[OutputIn(f)])), 10)
    ELSE IF rows_diff[OutputIn(f)].isNone THEN NoneValue
    ELSE Value(10 * rows_diff[OutputIn(f)].num, 10)

\* the severity of a cell: critical at or above the 'critical' threshold,
\* warning at or above the 'warning' threshold, normal otherwise
Severity(f) ==
    IF Displayed(f).isNone THEN "normal"
    ELSE IF Threshold(f, "critical") # None
            /\ Displayed(f).num >= 10 * Threshold(f, "critical")
    THEN "critical"
    ELSE IF Threshold(f, "warning") # None
            /\ Displayed(f).num >= 10 * Threshold(f, "warning")
    THEN "warning"
    ELSE "normal"

\* ------------------------------------------------------------------------
\* SystemStatCollector: refresh()
\* ------------------------------------------------------------------------

\* _read_proc_stat: the /proc/stat map after transform_dict_data; a key the
\* source lacks is a MissingFieldError (no dict field is optional)
_read_proc_stat(stat) ==
    IF \E f \in DictFields : stat[DictKey(f)] = None
    THEN [error |-> "MissingFieldError", data |-> [f \in DictFields |-> None]]
    ELSE [error |-> "none", data |-> [f \in DictFields |-> stat[DictKey(f)]]]

\* result.update(stat_data); result.update(cpu_data)
ResultRow(stat_data, cpu_data) ==
    [f \in Fields |-> IF f \in CpuModes THEN cpu_data[f] ELSE stat_data[f]]

\* a variant that never moves the current total to the previous one
RefreshCpuTimeKeepsPrevious(cpu_data) ==
    /\ previos_total_cpu_time' = previos_total_cpu_time
    /\ current_total_cpu_time' = TotalCpuTime(cpu_data)
    /\ cpu_time_diff' = TotalCpuTime(cpu_data) - previos_total_cpu_time

\* _refresh_cpu_time_values
_refresh_cpu_time_values(cpu_data) ==
    /\ previos_total_cpu_time' = current_total_cpu_time
    /\ current_total_cpu_time' = TotalCpuTime(cpu_data)
    /\ cpu_time_diff' = TotalCpuTime(cpu_data) - current_total_cpu_time

\* _do_refresh: make place for the new row
_do_refresh(new_row) ==
    /\ rows_prev' = rows_cur
    /\ rows_cur' = new_row

\* a refresh() that stores the new row before it parses the cpu row
RefreshStoresFirst(stat, source_up, store_ok) ==
    \E stat_data \in {_read_proc_stat(stat)}, cpu_data \in {_read_cpu_data(stat.cpu)} :
        IF ~source_up
        THEN /\ sys_error' = "SourceUnavailableError"
             /\ UNCHANGED <<rows_prev, rows_cur, previos_total_cpu_time,
                            current_total_cpu_time, cpu_time_diff>>
        ELSE /\ _do_refresh(ResultRow(stat_data.data, cpu_data.data))
             /\ IF stat_data.error # "none" \/ cpu_data.error # "none"
                THEN /\ sys_error' = (IF stat_data.error # "none"
                                      THEN stat_data.error ELSE cpu_data.error)
                     /\ UNCHANGED <<previos_total_cpu_time,
                                    current_total_cpu_time, cpu_time_diff>>
                ELSE /\ _refresh_cpu_time_values(cpu_data.data)
                     /\ sys_error' = "none"

\* refresh(): an exception leaves at the statement that raises it, so the
\* statements after it do not run.  source_up: the counter file can be read;
\* store_ok: _do_refresh completes
refresh(stat, source_up, store_ok) ==
    \E stat_data \in {_read_proc_stat(stat)}, cpu_data \in {_read_cpu_data(stat.cpu)} :
        IF ~source_up
        THEN /\ sys_error' = "SourceUnavailableError"
             /\ UNCHANGED <<rows_prev, rows_cur, previos_total_cpu_time,
                            current_total_cpu_time, cpu_time_diff>>
        ELSE IF stat_data.error # "none"
        THEN /\ sys_error' = stat_data.error
             /\ UNCHANGED <<rows_prev, rows_cur, previos_total_cpu_time,
                            current_total_cpu_time, cpu_time_diff>>
        ELSE IF cpu_data.error # "none"
        THEN /\ sys_error' = cpu_data.error
             /\ UNCHANGED <<rows_prev, rows_cur, previos_total_cpu_time,
                            current_total_cpu_time, cpu_time_diff>>
        ELSE /\ _refresh_cpu_time_values(cpu_data.data)
             /\ IF store_ok
                THEN /\ _do_refresh(ResultRow(stat_data.data, cpu_data.data))
                     /\ sys_error' = "none"
                ELSE /\ sys_error' = "RefreshError"
                     /\ UNCHANGED <<rows_prev, rows_cur>>

\* ------------------------------------------------------------------------
\* Inputs of the system collector
\* ------------------------------------------------------------------------

TickVals == 0 .. MaxTicks

\* a cpu row of /proc/stat (the tokens after the label): user nice system
\* idle iowait irq softirq steal guest, cut to its first n tokens.  u is the
\* user counter, o the counter of every other mode.
CpuRow(n, u, o) == SubSeq(<<u, 0, o, o, o, o, u, o, u>>, 1, n)

\* rows of 5 tokens lack the required irq field; rows of 6 to 8 tokens lack
\* optional fields (older kernels)
CpuRows ==
    {CpuRow(n, u, o) : n \in 5 .. 9, u \in TickVals, o \in TickVals}
      \cup {<<BadToken, 0, 1, 1, 1, 1>>}

ProcStat(cpu_row, c, r, b) ==
    [cpu |-> cpu_row, ctxt |-> c, procs_running |-> r, procs_blocked |-> b]

\* what one read of /proc/stat can return: every cpu row with one set of
\* process counters, some rows with others, and a map that lacks ctxt
SysStats ==
    {ProcStat(row, 5, 1, 0) : row \in CpuRows}
      \cup {ProcStat(CpuRow(9, u, 1), 7, 2, 1) : u \in TickVals}
      \cup {ProcStat(CpuRow(9, 1, 1), 3, 0, 6), ProcStat(CpuRow(9, 1, 1), None, 1, 0)}

\* ------------------------------------------------------------------------
\* The environment of a run
\* ------------------------------------------------------------------------

\* most instances the start-up code finds
MaxClusters == 1

\* a queue with room for a second batch
QueueCapacityTwo == 1 + 1

\* the JoinableQueue(1) of main()
QueueCapacity == 1

Methods == {"curses", "console", "json"}

\* what getch() can return: the eight bound keys, another key, no key
AllKeys == {"u", "f", "s", "h", "a", "t", "r", "q", "x", "none"}

\* the reads of /proc/stat a run of the loop meets: two full rows, a row
\* that lacks the required irq field, and a row without steal and guest
SteadyStat == ProcStat(CpuRow(9, 1, 1), 5, 1, 0)

LoopStats ==
    {SteadyStat, ProcStat(CpuRow(9, 2, 1), 7, 2, 1), ProcStat(CpuRow(5, 1, 1), 5, 1, 0),
     ProcStat(CpuRow(7, 2, 1), 5, 1, 0)}

\* A run's environment:
\*   methods   the output methods the run may be started with
\*   keys      the keys the terminal delivers to getch()
\*   signals   whether a termination signal can arrive
\*   changing  the collectors (by index) whose counter source changes between reads
\*   faults    {TRUE}: every source read succeeds; BOOLEAN: a read can fail
\*   stats     the reads of /proc/stat
\*   sampler   "live", or "stalled": the disk sampler completes no sample
\*   batches   the batches a live sampler produces
\*   watch     the collector whose displayed output is recorded (0: none)
Env(methods, keys, signals, changing, faults, stats, sampler, watch) ==
    [methods |-> methods, keys |-> keys, signals |-> signals,
     changing |-> changing, faults |-> faults, stats |-> stats,
     sampler |-> sampler, batches |-> {1, 2}, watch |-> watch]

\* the keyboard: every key, half of them at a time, on steady sources
KeyProfiles ==
    {Env(Methods, {"u", "f", "s", "h", "none"}, FALSE, {}, {TRUE},
         {SteadyStat}, "stalled", 0),
     Env(Methods, {"a", "t", "r", "q", "x", "none"}, FALSE, {}, {TRUE},
         {SteadyStat}, "stalled", 0)}

\* the channel: a live sampler, the quit key and termination signals
ChannelProfiles ==
    {Env(Methods, {"q", "none"}, TRUE, {}, {TRUE}, {SteadyStat}, "live", 0)}

\* failing sources
FaultProfiles ==
    {Env({"console"}, {"none"}, FALSE, {1}, BOOLEAN, LoopStats, "stalled", 0)}

\* freezing the view while the source of one watched collector changes: a
\* host collector (1), the system collector (2), a partition collector (4)
\* (the units key is delivered along with the freeze key to the first)
FreezeProfiles ==
    {Env({"curses"}, IF w = 1 THEN {"f", "u", "none"} ELSE {"f", "none"},
         FALSE, {w}, {TRUE},
         IF w = 2 THEN LoopStats \ {ProcStat(CpuRow(5, 1, 1), 5, 1, 0)}
         ELSE {SteadyStat},
         IF w = 4 THEN "live" ELSE "stalled", w) : w \in {1, 2, 4}}

Profiles == KeyProfiles \cup ChannelProfiles \cup FaultProfiles \cup FreezeProfiles

\* ------------------------------------------------------------------------
\* consts.py and poll_keys
\* ------------------------------------------------------------------------

DefaultConsts ==
    [freeze |-> FALSE, filter_aux |-> TRUE, autohide_fields |-> FALSE,
     display_units |-> FALSE, notrim |-> FALSE, realtime |-> FALSE]

\* a poll_keys that sets the flag of a key instead of flipping it
PollFlagsSetsOnly(c) ==
    [consts EXCEPT
       !.display_units = IF c = "u" THEN TRUE ELSE @,
       !.freeze = IF c = "f" THEN TRUE ELSE @,
       !.filter_aux = IF c = "s" THEN TRUE ELSE @,
       !.autohide_fields = IF c = "a" THEN TRUE ELSE @,
       !.notrim = IF c = "t" THEN TRUE ELSE @,
       !.realtime = IF c = "r" THEN TRUE ELSE @]

\* the flags after poll_keys read key c ("x is False" negates a boolean)
PollFlags(c) ==
    [consts EXCEPT
       !.display_units = IF c = "u" THEN (@ = FALSE) ELSE @,
       !.freeze = IF c = "f" THEN (@ = FALSE) ELSE @,
       !.filter_aux = IF c = "s" THEN (@ = FALSE) ELSE @,
       !.autohide_fields = IF c = "a" THEN (@ = FALSE) ELSE @,
       !.notrim = IF c = "t" THEN (@ = FALSE) ELSE @,
       !.realtime = IF c = "r" THEN (@ = FALSE) ELSE @]

\* output.toggle_help() on h
PollHelp(c) == IF c = "h" THEN ~show_help ELSE show_help

\* a poll_keys that never asks the loop to stop
PollKeysNeverStops(c) == TRUE

\* the value poll_keys returns: False only for q
poll_keys(c) == c # "q"

\* ------------------------------------------------------------------------
\* main(): start-up and exit
\* ------------------------------------------------------------------------

\* the list main() builds: host, system, memory, then a partition collector
\* and an instance collector per cluster
RECURSIVE ClusterCollectors(_)
ClusterCollectors(n) ==
    IF n = 0 THEN <<>> ELSE ClusterCollectors(n - 1) \o <<"partition", "pg">>

\* a list with the per-instance collectors in front
BuildCollectorsInstancesFirst(n) ==
    ClusterCollectors(n) \o <<"host", "system", "memory">>

BuildCollectors(n) == <<"host", "system", "memory">> \o ClusterCollectors(n)

\* the exit status sys.exit(1) asks for
FatalStatus == 1

\* the status main() exits with: whatever unwinds the try block, the finally
\* clause ends the process with sys.exit(0)
ExitStatus(exc) == 0

\* no conversion applied yet
NoCell == [fn |-> "none", input |-> None, output |-> NoneValue]

LoopPcs == {"consume", "poll_before", "process", "poll_after", "display",
            "refresh", "sleep"}

Init ==
    /\ env \in Profiles
    /\ clusters \in 0 .. MaxClusters
    /\ output_method \in env.methods
    /\ pc = "main"
    /\ raised = "none"
    /\ reported = {}
    /\ exit_status = None
    /\ screen = "None"
    /\ collectors = <<>>
    /\ idx = 0
    /\ consts = DefaultConsts
    /\ show_help = FALSE
    /\ q = <<>>
    /\ producer = "not started"
    /\ consumer_result = 0
    /\ snap = <<>>
    /\ rows_prev = EmptyRow
    /\ rows_cur = EmptyRow
    /\ previos_total_cpu_time = 0
    /\ current_total_cpu_time = 0
    /\ cpu_time_diff = 0
    /\ sys_error = "none"
    /\ last_error = "none"
    /\ tick_frozen = FALSE
    /\ displayed = 0
    /\ last_output = [drawn |-> FALSE, text |-> <<>>]
    /\ slept = FALSE
    /\ cell = NoCell

\* main(), lines 255-286: without clusters report and sys.exit(1); else
\* create the queue, start the sampler, build the collectors, call loop()
Main ==
    /\ pc = "main"
    /\ IF clusters = 0
       THEN /\ reported' = reported \cup {"No suitable PostgreSQL instances detected"}
            /\ raised' = "SystemExit"
            /\ pc' = "handlers"
            /\ UNCHANGED <<collectors, snap, producer>>
       ELSE /\ producer' = "running"
            /\ collectors' = BuildCollectors(clusters)
            /\ snap' = [i \in 1 .. Len(BuildCollectors(clusters)) |-> 0]
            /\ pc' = "loop"
            /\ UNCHANGED <<raised, reported>>
    /\ UNCHANGED <<cell, startVars, exit_status, screen, idx, viewVars, q,
                   consumer_result, sysVars, histVars>>

\* loop(): curses.wrapper(do_loop, ...) makes the screen, and raises
\* curses.error when the terminal cannot be set up; otherwise do_loop(None, ...)
Loop ==
    /\ pc = "loop"
    /\ IF output_method = "curses"
       THEN \E terminal_ok \in BOOLEAN :
              IF terminal_ok
              THEN screen' = "stdscr" /\ pc' = "get_output" /\ raised' = raised
              ELSE screen' = screen /\ pc' = "handlers" /\ raised' = "curses.error"
       ELSE screen' = "None" /\ pc' = "get_output" /\ raised' = raised
    /\ UNCHANGED <<cell, startVars, reported, exit_status, collectors, idx, viewVars,
                   channelVars, snap, sysVars, histVars>>

\* get_output(), called first thing by do_loop
GetOutput ==
    /\ pc = "get_output"
    /\ IF output_method = "curses"
       THEN IF screen = "None"
            THEN /\ reported' = reported \cup {"No parent screen is passed to the curses application"}
                 /\ raised' = "SystemExit"
                 /\ pc' = "handlers"
            ELSE \E is_color_supported \in BOOLEAN :
                   IF is_color_supported
                   THEN pc' = "consume" /\ UNCHANGED <<reported, raised>>
                   ELSE /\ reported' = reported \cup {"Curses output requires a terminal that supports color"}
                        /\ raised' = "SystemExit"
                        /\ pc' = "handlers"
       ELSE pc' = "consume" /\ UNCHANGED <<reported, raised>>
    /\ UNCHANGED <<cell, startVars, exit_status, screen, collectors, idx, viewVars,
                   channelVars, snap, sysVars, histVars>>

\* a termination signal while the loop runs
KeyboardInterrupt ==
    /\ pc \in LoopPcs
    /\ env.signals
    /\ raised' = "KeyboardInterrupt"
    /\ pc' = "handlers"
    /\ UNCHANGED <<cell, startVars, reported, exit_status, screen, collectors, idx,
                   viewVars, channelVars, snap, sysVars, histVars>>

\* the except clauses and the finally clause of main(), lines 287-297: a
\* KeyboardInterrupt passes silently, anything else that unwinds (SystemExit
\* too: the last clause is a bare except) prints its traceback
Handlers ==
    /\ pc = "handlers"
    /\ reported' = IF raised \in {"none", "KeyboardInterrupt"} THEN reported
                   ELSE reported \cup {"traceback"}
    /\ exit_status' = ExitStatus(raised)
    /\ pc' = "exit"
    /\ UNCHANGED <<cell, startVars, raised, screen, collectors, idx, viewVars,
                   channelVars, snap, sysVars, histVars>>

\* ------------------------------------------------------------------------
\* The disk sampler and its consumer
\* ------------------------------------------------------------------------

\* the sampler's loop: sample the work directories, put the batch into the
\* queue; put blocks while the queue is full
ProducerPut ==
    /\ producer = "running"
    /\ env.sampler = "live"
    /\ pc # "exit"
    /\ Len(q) < QueueCapacity
    /\ \E batch \in env.batches : q' = Append(q, batch)
    /\ UNCHANGED <<cell, startVars, mainVars, viewVars, producer, consumer_result,
                   snap, sysVars, histVars>>

\* the sampler process ends on its own (killed, or its sampling failed)
ProducerExit ==
    /\ producer = "running"
    /\ env.sampler = "live"
    /\ pc # "exit"
    /\ producer' = "exited"
    /\ UNCHANGED <<cell, startVars, mainVars, viewVars, q, consumer_result, snap,
                   sysVars, histVars>>

\* consumer.consume(): a non-blocking drain; the batch it finds is the
\* partition collectors' raw input for this tick, and it finds none on an
\* empty queue
consume ==
    IF q # <<>>
    THEN q' = Tail(q) /\ consumer_result' = Head(q)
    ELSE q' = q /\ consumer_result' = 0

\* ------------------------------------------------------------------------
\* do_loop
\* ------------------------------------------------------------------------

\* a loop that polls the keyboard under every output method
CursesAlways == TRUE

\* line 141: the keyboard is polled only under the curses output method
Curses == output_method = "curses"

\* a tick that waits for a batch before it goes on
ConsumeWaitsForBatch ==
    /\ pc = "consume"
    /\ q # <<>>
    /\ consume
    /\ idx' = 1
    /\ pc' = IF Curses THEN "poll_before" ELSE "process"
    /\ tick_frozen' = consts.freeze
    /\ displayed' = 0
    /\ UNCHANGED <<cell, startVars, raised, reported, exit_status, screen, collectors,
                   viewVars, producer, snap, sysVars, last_error, last_output,
                   slept>>

\* line 139: the tick starts by draining the channel
Consume ==
    /\ pc = "consume"
    /\ consume
    /\ idx' = 1
    /\ pc' = IF Curses THEN "poll_before" ELSE "process"
    /\ tick_frozen' = consts.freeze
    /\ displayed' = 0
    /\ UNCHANGED <<cell, startVars, raised, reported, exit_status, screen, collectors,
                   viewVars, producer, snap, sysVars, last_error, last_output,
                   slept>>

\* lines 141-144 and 147-149: poll_keys before and after each collector, here
\* with getch() returning c; on q do_loop returns at once, and main() goes on
\* to its finally clause
PollKey(c) ==
    /\ pc \in {"poll_before", "poll_after"}
    /\ Curses
    /\ consts' = PollFlags(c)
    /\ show_help' = PollHelp(c)
    /\ tick_frozen' = (tick_frozen /\ PollFlags(c).freeze)
    /\ IF ~poll_keys(c)
       THEN pc' = "handlers" /\ idx' = idx
       ELSE IF pc = "poll_before"
       THEN pc' = "process" /\ idx' = idx
       ELSE IF idx < Len(collectors)
       THEN pc' = "poll_before" /\ idx' = idx + 1
       ELSE pc' = "display" /\ idx' = 1
    /\ UNCHANGED <<cell, startVars, raised, reported, exit_status, screen, collectors,
                   channelVars, snap, sysVars, last_error, displayed,
                   last_output, slept>>

PollKeys == \E c \in env.keys : PollKey(c)

\* the next reading of a counter source that changes between reads
NextReading(i, old) == IF i \in env.changing /\ old = 1 THEN 2 ELSE 1

\* refresh() of a host, memory or instance collector: read the source; a
\* failed read leaves the snapshot as it was
GenericRefresh(i, ok) ==
    /\ snap' = IF ok THEN [snap EXCEPT ![i] = NextReading(i, @)] ELSE snap
    /\ last_error' = IF ok THEN "none" ELSE "SourceUnavailableError"
    /\ UNCHANGED sysVars

\* refresh() of a partition collector: take this tick's batch from the
\* consumer, or keep the last known values when there is none
PartitionRefresh(i) ==
    /\ snap' = IF consumer_result # 0 THEN [snap EXCEPT ![i] = consumer_result]
               ELSE snap
    /\ last_error' = "none"
    /\ UNCHANGED sysVars

\* refresh() of the system collector
SystemRefresh ==
    /\ \E stat \in env.stats, source_up \in env.faults, store_ok \in env.faults :
         refresh(stat, source_up, store_ok)
    /\ last_error' = sys_error'
    /\ UNCHANGED snap

\* a process step that refreshes even when the view is frozen
ProcessIgnoresFreeze(i) ==
    CASE collectors[i] = "system" -> SystemRefresh
      [] collectors[i] = "partition" -> PartitionRefresh(i)
      [] OTHER -> \E ok \in env.faults : GenericRefresh(i, ok)

\* process_single_collector: unless the view is frozen, refresh the
\* collector; a failure of the refresh is caught and logged here
process_single_collector(i) ==
    IF consts.freeze
    THEN UNCHANGED <<snap, sysVars, last_error>>
    ELSE CASE collectors[i] = "system" -> SystemRefresh
           [] collectors[i] = "partition" -> PartitionRefresh(i)
           [] OTHER -> \E ok \in env.faults : GenericRefresh(i, ok)

\* line 146
Process ==
    /\ pc = "process"
    /\ process_single_collector(idx)
    /\ IF Curses
       THEN pc' = "poll_after" /\ idx' = idx
       ELSE IF idx < Len(collectors)
       THEN pc' = "process" /\ idx' = idx + 1
       ELSE pc' = "display" /\ idx' = 1
    /\ UNCHANGED <<cell, startVars, raised, reported, exit_status, screen, collectors,
                   viewVars, channelVars, tick_frozen, displayed, last_output,
                   slept>>

\* what a collector's output stage formats
SnapshotOf(i) == IF collectors[i] = "system" THEN rows_diff ELSE snap[i]

\* collector.output(displayer), the displayer made from the current flags
Output(i) ==
    [data |-> SnapshotOf(i),
     show_units |-> consts.display_units,
     ignore_autohide |-> ~consts.autohide_fields,
     notrim |-> consts.notrim]

\* lines 157-165: format and display one collector
Display ==
    /\ pc = "display"
    /\ displayed' = displayed + 1
    /\ last_output' = IF idx = env.watch
                      THEN [drawn |-> TRUE, text |-> Output(idx)]
                      ELSE last_output
    /\ IF idx < Len(collectors)
       THEN pc' = "display" /\ idx' = idx + 1
       ELSE pc' = "refresh" /\ idx' = idx
    /\ UNCHANGED <<cell, startVars, raised, reported, exit_status, screen, collectors,
                   viewVars, channelVars, snap, sysVars, last_error,
                   tick_frozen, slept>>

\* lines 167-168: with curses, output.refresh() shows what display queued; the
\* renderer may fail with curses.error
Refresh ==
    /\ pc = "refresh"
    /\ IF Curses
       THEN \E render_ok \in BOOLEAN :
              IF render_ok THEN pc' = "sleep" /\ raised' = raised
              ELSE pc' = "handlers" /\ raised' = "curses.error"
       ELSE pc' = "sleep" /\ raised' = raised
    /\ UNCHANGED <<cell, startVars, reported, exit_status, screen, collectors, idx,
                   viewVars, channelVars, snap, sysVars, histVars>>

\* an end of tick that puts the flags back to their defaults
SleepResetsFlags ==
    /\ pc = "sleep"
    /\ slept' = ~consts.realtime
    /\ pc' = "consume"
    /\ consts' = DefaultConsts
    /\ UNCHANGED <<cell, startVars, raised, reported, exit_status, screen, collectors,
                   idx, show_help, channelVars, snap, sysVars, last_error,
                   tick_frozen, displayed, last_output>>

\* an end of tick that sleeps whatever realtime says
SleepAlways ==
    /\ pc = "sleep"
    /\ slept' = TRUE
    /\ pc' = "consume"
    /\ UNCHANGED <<cell, startVars, raised, reported, exit_status, screen, collectors,
                   idx, viewVars, channelVars, snap, sysVars, last_error,
                   tick_frozen, displayed, last_output>>

\* an end of tick after which the next tick starts without a drain
SleepSkipsDrain ==
    /\ pc = "sleep"
    /\ slept' = ~consts.realtime
    /\ pc' = "process"
    /\ idx' = 1
    /\ UNCHANGED <<cell, startVars, raised, reported, exit_status, screen, collectors,
                   viewVars, channelVars, snap, sysVars, last_error,
                   tick_frozen, displayed, last_output>>

\* lines 169-170
Sleep ==
    /\ pc = "sleep"
    /\ slept' = ~consts.realtime
    /\ pc' = "consume"
    /\ UNCHANGED <<cell, startVars, raised, reported, exit_status, screen, collectors,
                   idx, viewVars, channelVars, snap, sysVars, last_error,
                   tick_frozen, displayed, last_output>>

MainStep ==
    \/ Main
    \/ Loop
    \/ GetOutput
    \/ Consume
    \/ PollKeys
    \/ Process
    \/ Display
    \/ Refresh
    \/ Sleep
    \/ Handlers

Next ==
    \/ MainStep
    \/ KeyboardInterrupt
    \/ ProducerPut
    \/ ProducerExit

Spec == Init /\ [][Next]_vars

\* the loop under a fair scheduler: the main process keeps taking steps.
\* Termination signals and the sampler are under no such obligation.
LiveInit == Init /\ env \in ChannelProfiles

LiveSpec == LiveInit /\ [][Next]_vars /\ WF_vars(MainStep)

\* ------------------------------------------------------------------------
\* The system collector on its own: refresh() after refresh(), over every
\* read of /proc/stat of SysStats
\* ------------------------------------------------------------------------

SysInit ==
    /\ Init
    /\ env \in FaultProfiles
    /\ clusters = 1
    /\ output_method = "console"

SysRefresh ==
    /\ \E source_up \in BOOLEAN :
         \E stat \in (IF source_up THEN SysStats ELSE {SteadyStat}) :
           refresh(stat, source_up, TRUE)
    /\ UNCHANGED <<cell, startVars, mainVars, viewVars, channelVars, snap, histVars>>

SysNext == SysRefresh

SysSpec == SysInit /\ [][SysNext]_vars

\* ------------------------------------------------------------------------
\* The system collector on kernels that report different sets of optional
\* modes: every refresh() succeeds, the cpu rows have 6 to 9 tokens
\* ------------------------------------------------------------------------

OptStats ==
    {ProcStat(CpuRow(n, u, o), 5, 1, 0) : n \in 6 .. 9, u \in TickVals, o \in {1, 2}}

OptRefresh ==
    /\ \E stat \in OptStats : refresh(stat, TRUE, TRUE)
    /\ UNCHANGED <<cell, startVars, mainVars, viewVars, channelVars, snap, histVars>>

OptSpec == SysInit /\ [][OptRefresh]_vars

\* ------------------------------------------------------------------------
\* The system collector over the counters user=100 sys=50 idle=800 iowait=50
\* and user=110 sys=55 idle=830 iowait=55, as kernels with 6 to 9 columns
\* print them, with and without nice time, one or two processes running
\* ------------------------------------------------------------------------

ScenarioRow(n, nice, t) ==
    SubSeq(<<100 + 10 * t, nice, 50 + 5 * t, 800 + 30 * t, 50 + 5 * t, 0, 0, 0, 0>>, 1, n)

ScenarioStats ==
    {ProcStat(ScenarioRow(n, nice, t), 5 + t, r, 0) :
       n \in 6 .. 9, nice \in {0, 7}, t \in {0, 1}, r \in {1, 2}}

ScenarioRefresh ==
    /\ \E stat \in ScenarioStats : refresh(stat, TRUE, TRUE)
    /\ UNCHANGED <<cell, startVars, mainVars, viewVars, channelVars, snap, histVars>>

ScenarioSpec == SysInit /\ [][ScenarioRefresh]_vars

\* ------------------------------------------------------------------------
\* The unit conversions of the output stage, applied to raw values
\* ------------------------------------------------------------------------

\* largest of the small raw values
MaxRaw == 16

UnitFns == {"kb_to_mbytes", "sectors_to_mbytes", "bytes_to_mbytes",
            "ticks_to_seconds", "time_diff_to_percent"}

\* raw values: None, small integers, and the values of the tests and of the
\* memory scenario
RawValues == {None} \cup (0 .. MaxRaw) \cup {500, 3072, 20480, 2097152, 4194304}

Convert(fn, x) ==
    CASE fn = "kb_to_mbytes" -> kb_to_mbytes(x)
      [] fn = "sectors_to_mbytes" -> sectors_to_mbytes(x)
      [] fn = "bytes_to_mbytes" -> bytes_to_mbytes(x)
      [] fn = "ticks_to_seconds" -> ticks_to_seconds(x)
      [] fn = "time_diff_to_percent" ->
           time_diff_to_percent(IF x = None THEN NoneValue ELSE Value(x, 1))

UnitConvert ==
    /\ \E fn \in UnitFns, x \in RawValues :
         cell' = [fn |-> fn, input |-> x, output |-> Convert(fn, x)]
    /\ UNCHANGED <<startVars, mainVars, viewVars, channelVars, snap, sysVars,
                   histVars>>

UnitSpec == SysInit /\ [][UnitConvert]_vars

\* ------------------------------------------------------------------------
\* Properties of the loop and the channel (under Spec and LiveSpec)
\* ------------------------------------------------------------------------

Stopped == pc \in {"handlers", "exit"}

\* the system collector's snapshots and every other collector's snapshot
snapshots == <<snap, rows_prev, rows_cur>>

\* C1: the channel never holds more than one batch; the sampler enqueues
\* only into an empty channel; a drain of an empty channel reports no new
\* data (consumer_result 0), changes no snapshot and raises nothing.
C1_ChannelHoldsOneBatch ==
    [][/\ Len(q') <= 1
       /\ Len(q') > Len(q) => q = <<>>
       /\ (pc = "consume" /\ pc' \in {"poll_before", "process"} /\ q = <<>>)
            => /\ q' = <<>>
               /\ consumer_result' = 0
               /\ UNCHANGED <<snap, sysVars, last_error, raised>>]_vars

\* C1 witness: after a batch was consumed and merged, a later drain found the
\* channel empty, and the sampler has since filled the channel again
C1_Witness ==
    /\ pc = "process"
    /\ consumer_result = 0
    /\ Len(collectors) >= 4 /\ snap[4] # 0
    /\ Len(q) = 1
    /\ producer = "running"

\* the displayer of the watched collector's last output was made from the
\* flags as they are now
SameDisplayer ==
    /\ last_output.text.show_units = consts.display_units
    /\ last_output.text.ignore_autohide = ~consts.autohide_fields
    /\ last_output.text.notrim = consts.notrim

\* C2 (as claimed): in a tick during which freeze is set, a collector's
\* displayed output equals its displayed output of the previous tick.
C2_FrozenOutputIdentical ==
    [][(pc = "display" /\ idx = env.watch /\ tick_frozen /\ last_output.drawn)
         => last_output' = last_output]_vars

\* C2 (amended): while freeze is set a process step refreshes no collector;
\* every tick, frozen or not, displays every collector before it renders; and
\* in a tick during which freeze is set, a collector's displayed output
\* equals its displayed output of the previous tick provided the flags the
\* displayer is made from (display_units, autohide_fields, notrim) are what
\* they were at the previous tick's display.
C2_FrozenOutputIdentical_Amended ==
    [][/\ (pc = "process" /\ consts.freeze) => UNCHANGED <<snap, sysVars>>
       /\ (pc = "display" /\ pc' = "refresh") => displayed' = Len(collectors)
       /\ (pc = "display" /\ idx = env.watch /\ tick_frozen /\ last_output.drawn
             /\ SameDisplayer)
            => last_output' = last_output]_vars

\* C2 witness: a wholly frozen tick has displayed the watched host collector,
\* whose source changes between reads, with data an earlier tick had read
C2_Witness ==
    /\ env.watch = 1
    /\ 1 \in env.changing
    /\ tick_frozen
    /\ pc = "refresh"
    /\ last_output.drawn
    /\ last_output.text.data # 0

\* C5 (as claimed): after a fatal start-up condition the error has been
\* reported, the exit status is not 0 and no tick was executed.
C5_FatalStartupExitsNonZero ==
    (pc = "exit" /\ raised = "SystemExit")
      => /\ reported # {}
         /\ exit_status # 0
         /\ displayed = 0
         /\ rows_cur = EmptyRow

\* a step of the process phase other than a termination signal
ProcessStep ==
    /\ pc = "process"
    /\ <<pc, idx>>' # <<pc, idx>>
    /\ raised' # "KeyboardInterrupt"

\* C6: a refresh that fails during a tick leaves every snapshot as it was
\* and does not stop the loop: nothing is raised, and the loop goes on to
\* its next position.
C6_FailedRefreshKeepsSnapshot ==
    [][(ProcessStep /\ last_error' # "none")
         => /\ UNCHANGED snapshots
            /\ raised' = "none"
            /\ pc' \in LoopPcs]_vars

\* C6 witness: a tick was displayed and rendered after the system
\* collector's refresh failed in it, its earlier snapshot still in place
C6_Witness ==
    /\ pc = "sleep"
    /\ sys_error # "none"
    /\ rows_cur # EmptyRow
    /\ displayed = Len(collectors)

\* C7: a polled q stops the loop at once, with no flag changed and nothing
\* raised; once the loop has stopped no collector is refreshed or displayed
\* and no tick starts; and the loop stops only on a polled q, a renderer
\* error or a termination signal.
C7_QuitStopsAtOnce ==
    [][/\ PollKey("q") => (pc' = "handlers" /\ raised' = "none"
                             /\ UNCHANGED <<consts, show_help>>)
       /\ Stopped => (Stopped' /\ UNCHANGED <<snapshots, sysVars, displayed,
                                               last_output, consumer_result>>)
       /\ (pc \in LoopPcs /\ Stopped')
            => \/ PollKey("q")
               \/ raised' = "curses.error" /\ pc = "refresh"
               \/ raised' = "KeyboardInterrupt"]_vars

\* C7 witness: the process has exited on a q polled in the middle of a tick,
\* after some collectors of the tick were refreshed and before any was
\* displayed
C7_Witness ==
    /\ pc = "exit"
    /\ raised = "none"
    /\ idx = 3
    /\ snap[1] # 0
    /\ displayed = 0

\* C8: the drain never blocks the tick: every tick that starts goes on to
\* its render and sleep (or the loop is stopped by a key, a signal or the
\* renderer), whatever the channel holds and whether or not the sampler is
\* alive; and a partition collector processed without a new batch keeps its
\* values.
C8_TickAlwaysRenders ==
    /\ [][(pc = "process" /\ collectors[idx] = "partition" /\ consumer_result = 0)
            => snap' = snap]_vars
    /\ (pc = "consume") ~> (pc = "sleep" \/ Stopped)

\* C8 witness: a tick that started on an empty channel after the sampler had
\* exited has been rendered, the partition collector still showing the
\* batch of an earlier tick
C8_Witness ==
    /\ pc = "sleep"
    /\ producer = "exited"
    /\ q = <<>>
    /\ consumer_result = 0
    /\ snap[4] # 0

\* C9 (as claimed): when the process exits after a quit key or a termination
\* signal, the sampler is no longer running and the channel is empty.
C9_ExitStopsProducerAndDrains ==
    (pc = "exit" /\ raised \in {"none", "KeyboardInterrupt"})
      => (producer # "running" /\ q = <<>>)

\* ------------------------------------------------------------------------
\* Properties of the system collector (under SysSpec)
\* ------------------------------------------------------------------------

\* the collector has been refreshed once: no prior snapshot exists
FirstTick == rows_prev = EmptyRow /\ rows_cur # EmptyRow

\* the two snapshots are those of the last two refreshes, and the totals are
\* theirs
ModesOf(row) == [m \in CpuModes |-> row[m]]

TwoTicks ==
    /\ rows_prev # EmptyRow
    /\ rows_cur # EmptyRow
    /\ previos_total_cpu_time = TotalCpuTime(ModesOf(rows_prev))
    /\ current_total_cpu_time = TotalCpuTime(ModesOf(rows_cur))

\* the sum, over the modes whose share is not None, of the percentages the
\* output stage derives, as the numerator over the common denominator
\* cpu_time_diff
PercentSum ==
    SumModes([m \in CpuModes |->
                IF rows_diff[m].isNone THEN 0 ELSE time_diff_to_percent(rows_diff[m]).num])

\* C3 (as claimed): for every mode, the CPU-time diff is
\* (current[mode] - previous[mode]) / cpu_time_diff whenever both values are
\* present (0 counts as present) and cpu_time_diff > 0, and None otherwise.
C3_CpuTimeDiffOfPresentValues ==
    \A m \in CpuModes :
      _cpu_time_diff(m, rows_cur, rows_prev) =
        IF rows_cur[m] # None /\ rows_prev[m] # None /\ cpu_time_diff > 0
        THEN Value(rows_cur[m] - rows_prev[m], cpu_time_diff)
        ELSE NoneValue

\* C4 (as claimed): over two consecutive refreshes with cpu_time_diff > 0 the
\* percentages of the modes that have one sum to at most 100%, for every pair
\* of counter rows.
C4_PercentSumAtMost100 ==
    (TwoTicks /\ cpu_time_diff > 0) => PercentSum <= 100 * cpu_time_diff

\* C4 (amended): over two consecutive refreshes with cpu_time_diff > 0 the
\* percentages sum to at most 100% whenever every mode that had a non-zero
\* value in the previous row has a non-zero value in the current row; rows
\* where a counter decreased to a non-zero value, and rows where an optional
\* mode appears only in the current row, are covered.
NoModeDropsOut == \A m \in CpuModes : Truthy(rows_prev[m]) => Truthy(rows_cur[m])

C4_PercentSumAtMost100_Amended ==
    (TwoTicks /\ cpu_time_diff > 0 /\ NoModeDropsOut)
      => PercentSum <= 100 * cpu_time_diff

\* C4 witness: two refreshes with cpu_time_diff > 0 in which one counter
\* decreased, an optional mode is present in the current row only, and some
\* mode has a share
C4_Witness ==
    /\ TwoTicks
    /\ cpu_time_diff > 0
    /\ NoModeDropsOut
    /\ \E m \in CpuModes : rows_cur[m] # None /\ rows_cur[m] < rows_prev[m]
    /\ \E m \in OptionalModes : rows_prev[m] = None /\ rows_cur[m] # None
    /\ \E m \in CpuModes : ~rows_diff[m].isNone

\* C10: on the first tick after construction every diffed field (the eight
\* modes and ctxt) is None, and the pass-through fields running and blocked
\* carry the values just read.
C10_FirstTickDeltas ==
    FirstTick =>
      /\ \A f \in CpuModes \cup {"ctxt"} : rows_diff[f] = NoneValue
      /\ \A f \in PassThroughFields : rows_diff[f] = Value(rows_cur[f], 1)

\* C10 witness: a first tick that read non-zero counters, with a positive
\* cpu_time_diff, and a blocked process
C10_Witness ==
    /\ FirstTick
    /\ cpu_time_diff > 0
    /\ rows_cur["utime"] > 0
    /\ rows_cur["blocked"] > 0

\* C11: for every field with a diff function (the eight modes and ctxt), the
\* delta computed with previous equal to current is 0 or None, whatever
\* cpu_time_diff holds.
C11_DiffOfEqualSnapshots ==
    \A f \in CpuModes \cup {"ctxt"} :
      \A row \in {rows_cur, rows_prev} :
        \E d \in {Diff(f, row, row)} : d.isNone \/ d.num = 0

\* C11 witness: with a positive cpu_time_diff a mode read as non-zero has
\* the delta 0 against itself, and so has ctxt
Diff0OfCurrent ==
    /\ rows_cur["utime"] > 0
    /\ Diff("utime", rows_cur, rows_cur) = Value(0, cpu_time_diff)
    /\ Diff("ctxt", rows_cur, rows_cur) = Value(0, 1)

C11_Witness == rows_cur # EmptyRow /\ cpu_time_diff > 0 /\ Diff0OfCurrent

\* the modes a cpu row has a token for, and the sum of a snapshot over them
PresentModes(cpu_row) == {m \in CpuModes : ListIndex(m) + 1 <= Len(cpu_row)}

SumOver(row, modes) ==
    SumModes([m \in CpuModes |-> IF m \in modes /\ row[m] # None THEN row[m] ELSE 0])

\* the share of a mode had both snapshots held the given modes only
ShareOver(m, modes) ==
    IF Truthy(rows_cur[m]) /\ Truthy(rows_prev[m])
       /\ SumOver(rows_cur, modes) - SumOver(rows_prev, modes) > 0
    THEN Value(rows_cur[m] - rows_prev[m],
               SumOver(rows_cur, modes) - SumOver(rows_prev, modes))
    ELSE NoneValue

\* reads of /proc/stat that lack an optional mode
OptionalAbsentStats == {stat \in OptStats : PresentModes(stat.cpu) # CpuModes}

\* what the claim says of a refresh that read stat: no error, the absent
\* modes outside the total and with the delta None
AbsentLeftOut(stat) ==
    /\ sys_error' = "none"
    /\ current_total_cpu_time' = SumOver(rows_cur', PresentModes(stat.cpu))
    /\ \A m \in CpuModes \ PresentModes(stat.cpu) :
         rows_cur'[m] = None /\ rows_diff'[m] = NoneValue

\* the siblings' deltas are those of snapshots holding the present modes only
SiblingsUnaffected(stat) ==
    \A m \in PresentModes(stat.cpu) : rows_diff'[m] = ShareOver(m, PresentModes(stat.cpu))'

\* C12 (as claimed): when an optional mode is absent from the cpu row,
\* refresh() raises nothing, the absent mode is left out of the total and its
\* delta is None, and every present mode's delta is what it would be had the
\* snapshots held the present modes only.
C12_OptionalAbsent ==
    [][\A stat \in OptionalAbsentStats :
         refresh(stat, TRUE, TRUE) => (AbsentLeftOut(stat) /\ SiblingsUnaffected(stat))]_vars

\* C12 (amended): when an optional mode is absent from the cpu row,
\* refresh() raises nothing, the absent mode is left out of the total and its
\* delta is None; every present mode's delta is what it would be had the
\* snapshots held the present modes only, provided the previous snapshot has
\* no non-zero value for a mode absent now.
C12_OptionalAbsent_Amended ==
    [][\A stat \in OptionalAbsentStats :
         refresh(stat, TRUE, TRUE) =>
           /\ AbsentLeftOut(stat)
           /\ (\A m \in CpuModes \ PresentModes(stat.cpu) : ~Truthy(rows_cur[m]))
                => SiblingsUnaffected(stat)]_vars

\* C12 witness: two refreshes read rows without guest, and a present mode
\* has a share
C12_Witness ==
    /\ TwoTicks
    /\ sys_error = "none"
    /\ rows_cur["guest"] = None /\ rows_prev["guest"] = None
    /\ rows_cur["steal"] # None
    /\ ~rows_diff["utime"].isNone

\* the four counters of a snapshot, no other mode contributing
Counters(row, u, s, i, w) ==
    /\ row["utime"] = u /\ row["stime"] = s /\ row["idle"] = i /\ row["iowait"] = w
    /\ \A m \in CpuModes \ {"utime", "stime", "idle", "iowait"} : ~Truthy(row[m])

\* the percentage the output stage shows for a mode is p
PercentIs(m, p) ==
    \E v \in {time_diff_to_percent(rows_diff[m])} : ~v.isNone /\ v.num = p * v.den

ScenarioRead ==
    /\ Counters(rows_prev, 100, 50, 800, 50)
    /\ Counters(rows_cur, 110, 55, 830, 55)

\* C13: after refreshes that read user=100 sys=50 idle=800 iowait=50 and
\* then user=110 sys=55 idle=830 iowait=55, cpu_time_diff is 50, the user
\* share is 20% and the idle share 60%.
C13_Scenario ==
    ScenarioRead => (cpu_time_diff = 50 /\ PercentIs("utime", 20) /\ PercentIs("idle", 60))

\* C13 witness: the two rows were read, the first from a kernel with 6
\* columns and the second from one with 9
C13_Witness ==
    /\ ScenarioRead
    /\ rows_prev["softirq"] = None
    /\ rows_cur["guest"] = 0
    /\ current_total_cpu_time = 1050

\* ------------------------------------------------------------------------
\* Properties of the keyboard and of the order of a tick (under Spec)
\* ------------------------------------------------------------------------

FlagOfKey ==
    [u |-> "display_units", f |-> "freeze", s |-> "filter_aux",
     a |-> "autohide_fields", t |-> "notrim", r |-> "realtime"]

FlagNames == {"freeze", "filter_aux", "autohide_fields", "display_units",
              "notrim", "realtime"}

\* C14: a polled u, f, s, a, t or r flips its own flag and no other; h
\* toggles the help visibility only; any other key, or none, changes nothing;
\* the poll reports stop for q and for no other key.
C14_KeyFlipsItsFlag ==
    [][\A c \in AllKeys :
         PollKey(c) =>
           /\ \A g \in FlagNames :
                consts'[g] = IF c \in DOMAIN FlagOfKey /\ FlagOfKey[c] = g
                             THEN ~consts[g] ELSE consts[g]
           /\ show_help' = IF c = "h" THEN ~show_help ELSE show_help
           /\ (pc' = "handlers") <=> (c = "q")
           /\ raised' = raised]_vars

\* C14 witness: u, s and h were polled, and f in the middle of a tick; the
\* loop goes on
C14_Witness ==
    /\ pc = "process"
    /\ consts.display_units /\ ~consts.filter_aux /\ show_help
    /\ consts.freeze /\ ~tick_frozen
    /\ idx = 2

\* C15: the flags hold their defaults at start and change only in a step of
\* poll_keys.
C15_FlagsChangeOnlyOnPoll ==
    /\ consts = DefaultConsts
    /\ [][consts' # consts =>
            (pc \in {"poll_before", "poll_after"} /\ \E c \in AllKeys : PollKey(c))]_vars

\* C15 witness: flags set by keys are still set after the tick's display,
\* render and sleep, at the start of the next tick
C15_Witness ==
    /\ pc = "consume"
    /\ collectors # <<>>
    /\ displayed = Len(collectors)
    /\ slept
    /\ consts.freeze /\ ~consts.filter_aux /\ consts.display_units

\* host, system, memory, then per instance its partition collector and its
\* instance collector
FixedOrder ==
    /\ Len(collectors) = 3 + 2 * clusters
    /\ collectors[1] = "host" /\ collectors[2] = "system" /\ collectors[3] = "memory"
    /\ \A k \in 1 .. clusters :
         collectors[2 + 2 * k] = "partition" /\ collectors[3 + 2 * k] = "pg"

RefreshPhase == {"poll_before", "process", "poll_after"}

\* C16: while the loop runs the list of collectors is host, system, memory
\* and the per-instance pairs, and never changes; a tick refreshes the
\* collectors one by one in the order of the list, each refresh touching the
\* snapshot of its own collector only, and displays them in the same order.
C16_FixedCollectorOrder ==
    [][/\ pc' \in LoopPcs => FixedOrder'
       /\ pc \in LoopPcs => collectors' = collectors
       /\ (pc = "consume" /\ pc' \in RefreshPhase) => idx' = 1
       /\ (pc \in RefreshPhase /\ pc' \in RefreshPhase)
            => /\ idx' = idx \/ (idx' = idx + 1 /\ pc \in {"process", "poll_after"})
               /\ pc' = "poll_after" => pc \in {"process", "poll_after"}
       /\ (pc \in RefreshPhase /\ pc' = "display")
            => (idx = Len(collectors) /\ idx' = 1 /\ pc \in {"process", "poll_after"})
       /\ pc \in RefreshPhase
            => /\ \A j \in 1 .. Len(collectors) : j # idx => snap'[j] = snap[j]
               /\ collectors[idx] # "system" => UNCHANGED sysVars
       /\ (pc = "display" /\ pc' \in {"display", "refresh"} /\ displayed' # displayed)
            => /\ displayed' = idx
               /\ displayed = idx - 1
               /\ IF idx < Len(collectors) THEN pc' = "display" /\ idx' = idx + 1
                  ELSE pc' = "refresh"]_vars

\* C16 witness: in a second tick, the five collectors of a run with one
\* instance were refreshed in order and the first four are displayed
C16_Witness ==
    /\ clusters = 1
    /\ pc = "display"
    /\ idx = 5
    /\ displayed = 4
    /\ snap[1] = 2 /\ snap[5] # 0

\* C17: the end of a tick sleeps if and only if realtime is false then, and
\* a tick starts again only through it.
C17_SleepUnlessRealtime ==
    [][/\ (pc = "sleep" /\ pc' = "consume") => (slept' <=> ~consts.realtime)
       /\ (pc \in LoopPcs /\ pc # "consume" /\ pc' = "consume") => pc = "sleep"
       /\ pc # "sleep" => slept' = slept]_vars

\* C17 witness: with realtime set, a tick that was displayed in full is
\* followed by the next without a sleep
C17_Witness ==
    /\ pc = "consume"
    /\ collectors # <<>>
    /\ displayed = Len(collectors)
    /\ consts.realtime
    /\ ~slept

\* C19: a tick drains the channel once, before any refresh; the refreshes
\* of all collectors precede the first output; every collector's output is
\* displayed before the render, the render precedes the sleep, and the
\* next drain follows the sleep.
C19_TickOrder ==
    [][/\ (Len(q') < Len(q) \/ consumer_result' # consumer_result)
            => (pc = "consume" /\ pc' \in {"poll_before", "process"})
       /\ (pc \in LoopPcs /\ pc # "consume" /\ pc' = "consume") => pc = "sleep"
       /\ (pc = "consume" /\ pc' # pc) => pc' \in {"poll_before", "process", "handlers"}
       /\ (pc \notin RefreshPhase /\ pc' \in RefreshPhase) => (pc = "consume" /\ idx' = 1)
       /\ (pc # "display" /\ pc' = "display")
            => (pc \in RefreshPhase /\ idx = Len(collectors) /\ displayed = 0)
       /\ pc \in {"display", "refresh", "sleep"} => UNCHANGED <<snap, sysVars>>
       /\ (pc # "refresh" /\ pc' = "refresh")
            => (pc = "display" /\ displayed' = Len(collectors))
       /\ (pc # "sleep" /\ pc' = "sleep")
            => (pc = "refresh" /\ displayed = Len(collectors))]_vars

\* C19 witness: a tick drained a batch, the partition collector took it, all
\* collectors were displayed and rendered, and the loop is at its sleep
C19_Witness ==
    /\ pc = "sleep"
    /\ consumer_result # 0
    /\ snap[4] = consumer_result
    /\ displayed = Len(collectors)

\* ------------------------------------------------------------------------
\* Properties of the unit conversions (under UnitSpec)
\* ------------------------------------------------------------------------

RECURSIVE GCD(_, _)
GCD(a, b) == IF b = 0 THEN a ELSE GCD(b, a % b)

\* a value in lowest terms
Lowest(n, d) ==
    IF n = 0 THEN Value(0, 1) ELSE Value(n \div GCD(n, d), d \div GCD(n, d))

\* the conversion fn was applied to x and gave exactly n / d
Gives(fn, x, n, d) ==
    (cell.fn = fn /\ cell.input = x)
      => (~cell.output.isNone
          /\ Lowest(cell.output.num, cell.output.den) = Lowest(n, d))

\* the conversion fn gives input * n / d for every input but None
Scales(fn, n, d) ==
    (cell.fn = fn /\ cell.input # None)
      => (~cell.output.isNone
          /\ Lowest(cell.output.num, cell.output.den) = Lowest(cell.input * n, d))

\* C18: kb_to_mbytes(k) = k / 1024 (3072 gives 3, 4194304 gives 4096),
\* sectors_to_mbytes(20480) = 10, bytes_to_mbytes(2097152) = 2,
\* ticks_to_seconds(500) = 5 with USER_HZ = 100, time_diff_to_percent(x) =
\* 100 * x (10 gives 1000), and each of the five gives None for None.
C18_UnitConversions ==
    /\ Scales("kb_to_mbytes", 1, 1024)
    /\ Gives("kb_to_mbytes", 3072, 3, 1)
    /\ Gives("kb_to_mbytes", 4194304, 4096, 1)
    /\ Gives("sectors_to_mbytes", 20480, 10, 1)
    /\ Gives("bytes_to_mbytes", 2097152, 2, 1)
    /\ USER_HZ = 100 => Gives("ticks_to_seconds", 500, 5, 1)
    /\ Scales("time_diff_to_percent", 100, 1)
    /\ Gives("time_diff_to_percent", 10, 1000, 1)
    /\ (cell.fn \in UnitFns /\ cell.input = None) => cell.output = NoneValue

\* C18 witness: the memory total of 4194304 KB was converted
C18_Witness ==
    /\ cell.fn = "kb_to_mbytes"
    /\ cell.input = 4194304
    /\ cell.output = Value(4194304, 1024)

\* ------------------------------------------------------------------------
\* Properties of the system collector's totals in the loop (under Spec)
\* ------------------------------------------------------------------------

totals == <<previos_total_cpu_time, current_total_cpu_time, cpu_time_diff>>

\* the loop's process step for the system collector, with refresh() called
SystemRefreshStep ==
    /\ pc = "process"
    /\ collectors[idx] = "system"
    /\ <<pc, idx>>' # <<pc, idx>>
    /\ pc' # "handlers"
    /\ ~consts.freeze

\* errors refresh() raises while it reads and parses, before the totals
ReadErrors == {"SourceUnavailableError", "MissingFieldError", "CoercionError"}

\* C20: a refresh() that has read its cpu row moves current_total_cpu_time to
\* previos_total_cpu_time, sets current_total_cpu_time to the sum of the
\* non-None mode values just read and cpu_time_diff to their difference; a
\* refresh() that raises while reading, and every step in which refresh()
\* is not called, leave the three unchanged; the three are 0 before the
\* first refresh.
C20_RunningTotals ==
    /\ totals = <<0, 0, 0>>
    /\ [][/\ (SystemRefreshStep /\ sys_error' \notin ReadErrors)
               => /\ previos_total_cpu_time' = current_total_cpu_time
                  /\ cpu_time_diff' = current_total_cpu_time' - previos_total_cpu_time'
                  /\ sys_error' = "none"
                       => current_total_cpu_time' = SumOver(rows_cur', CpuModes)
          /\ (SystemRefreshStep /\ sys_error' \in ReadErrors) => UNCHANGED totals
          /\ ~SystemRefreshStep => UNCHANGED totals]_vars

\* C20 witness: after a refresh that read a row without steal and guest and
\* moved the totals, a tick went by without a refresh and the totals are
\* as they were
C20_Witness ==
    /\ pc = "display"
    /\ tick_frozen
    /\ rows_cur # EmptyRow /\ rows_cur["guest"] = None
    /\ previos_total_cpu_time > 0
    /\ current_total_cpu_time = SumOver(rows_cur, CpuModes)
    /\ cpu_time_diff = current_total_cpu_time - previos_total_cpu_time
    /\ cpu_time_diff # 0

\* ------------------------------------------------------------------------
\* Properties of the system collector's output stage (under SysSpec)
\* ------------------------------------------------------------------------

\* the thresholds of the cells that have them: warning, critical
StatedThresholds ==
    [utime |-> <<50, 90>>, stime |-> <<10, 30>>, iowait |-> <<20, 50>>,
     block |-> <<1, 5>>]

\* the severity of a displayed value against a warning and a critical
\* threshold
SeverityAgainst(tenths, warning, critical) ==
    IF tenths >= 10 * critical THEN "critical"
    ELSE IF tenths >= 10 * warning THEN "warning"
    ELSE "normal"

\* C21 (as claimed): every cell with thresholds (utime 50/90, stime 10/30,
\* iowait 20/50, blocked 1/5) that displays a value is critical at or above
\* its critical threshold, warning at or above its warning threshold and
\* below the critical one, and normal otherwise; a cell without thresholds
\* is normal.
C21_SeverityByThresholds ==
    \A f \in OutputFields :
      ~Displayed(f).isNone =>
        Severity(f) =
          IF f \in DOMAIN StatedThresholds
          THEN SeverityAgainst(Displayed(f).num, StatedThresholds[f][1],
                               StatedThresholds[f][2])
          ELSE "normal"

\* ------------------------------------------------------------------------
\* Properties of refresh() when a step of it fails (under Spec)
\* ------------------------------------------------------------------------

\* C22 (as claimed): the totals advance in a refresh only if the snapshots
\* advance in it too; a refresh() that fails, in its parse or in
\* _do_refresh, leaves the three totals as they were.
C22_TotalsInStepWithSnapshots ==
    [][/\ (SystemRefreshStep /\ sys_error' # "none") => UNCHANGED totals
       /\ totals' # totals => (sys_error' = "none" /\ rows_prev' = rows_cur)]_vars

\* ------------------------------------------------------------------------
\* Properties of the system collector after a counter reset (under SysSpec)
\* ------------------------------------------------------------------------

\* the tick just refreshed read a total not greater than the total of the
\* refresh before it
ResetTick ==
    /\ rows_prev # EmptyRow
    /\ rows_cur # EmptyRow
    /\ cpu_time_diff <= 0

\* a refresh() that completed and read a total greater than the last one
RecoveryRefresh ==
    /\ sys_error' = "none"
    /\ rows_prev' = rows_cur
    /\ previos_total_cpu_time' = current_total_cpu_time
    /\ current_total_cpu_time' > current_total_cpu_time

\* C23 (as claimed): in a tick whose total is not greater than the previous
\* total every mode's field is None; at the next refresh with a greater
\* total every mode read in both ticks has its fraction again, the
\* difference to the reset tick's value over the difference to the reset
\* tick's total.
C23_RecoveryAfterReset ==
    [][/\ ResetTick' => \A m \in CpuModes : rows_diff'[m] = NoneValue
       /\ (ResetTick /\ RecoveryRefresh)
            => \A m \in CpuModes :
                 (rows_cur[m] # None /\ rows_cur'[m] # None)
                   => rows_diff'[m] =
                        Value(rows_cur'[m] - rows_cur[m],
                              current_total_cpu_time' - current_total_cpu_time)]_vars

\* ------------------------------------------------------------------------
\* Properties of the loop under the console and json output methods
\* ------------------------------------------------------------------------

\* C24: under a non-curses output method no keystroke is polled, the flags
\* keep their initial values in every state, and the loop stops only with
\* an exception or a signal raised, never by the quit key.
C24_NonCursesNeverPolls ==
    /\ [](output_method # "curses" => (consts = DefaultConsts /\ show_help = FALSE))
    /\ [][output_method # "curses" =>
            /\ ~PollKeys
            /\ (pc \in LoopPcs /\ Stopped') => raised' # "none"]_vars

\* a console or json run with the quit key and a flag key pressed has been
\* through a tick and is in the next, the flags untouched
C24_Witness ==
    /\ output_method # "curses"
    /\ {"q", "r"} \subseteq env.keys
    /\ slept
    /\ pc = "display"
    /\ consts = DefaultConsts

====
